---------------------------- MODULE Spec2Model ----------------------------
(***************************************************************************)
(* CryptoXpressBot (cryptoxpress_bot.py): the content selector with its    *)
(* two generators and the backup pool, the posted-tweets store and its     *)
(* log file, and the run loop.                                             *)
(*                                                                         *)
(* A text is a sequence of one-character strings, so that strip, the       *)
(* '#' test, slicing, line splitting and len are computed as Python        *)
(* computes them.  Time is counted in seconds, as time.time() and          *)
(* time.sleep() count it.                                                  *)
(***************************************************************************)
EXTENDS Integers, Sequences, FiniteSets, TLC

(***************************************************************************)
(* Texts                                                                   *)
(***************************************************************************)

(* The characters str.strip() removes when called without argument. *)
Whitespace == {" ", "\n", "\t", "\r"}

(* The characters of strip('"\''). *)
QuoteChars == {"\"", "'"}

MinOf(S) == CHOOSE x \in S : \A y \in S : x <= y

MaxOf(S) == CHOOSE x \in S : \A y \in S : y <= x

(* s.strip(cs): s without its leading and trailing characters of cs. *)
Strip(s, cs) ==
    LET keep == {i \in 1..Len(s) : s[i] \notin cs}
    IN  IF keep = {} THEN << >> ELSE SubSeq(s, MinOf(keep), MaxOf(keep))

(* s.startswith(p) *)
StartsWith(s, p) == Len(p) <= Len(s) /\ SubSeq(s, 1, Len(p)) = p

(* s[n:] *)
DropFirst(s, n) == SubSeq(s, n + 1, Len(s))

(* s[:n] *)
TakeFirst(s, n) == SubSeq(s, 1, IF n < Len(s) THEN n ELSE Len(s))

(* c in s *)
HasChar(s, c) == \E i \in 1..Len(s) : s[i] = c

(* n copies of the character c. *)
Rep(c, n) == [i \in 1..n |-> c]

(* The lines a text-mode file iterator yields for the file content s: *)
(* each runs up to and including its line break; a last line without  *)
(* one is a line too.                                                 *)
FileLines(s) ==
    LET breaks == {i \in 1..Len(s) : s[i] = "\n"}
        starts == {1} \cup {i + 1 : i \in breaks}
        stop(b) == IF \E i \in breaks : i >= b
                   THEN MinOf({i \in breaks : i >= b})
                   ELSE Len(s)
    IN  [k \in 1..Cardinality({b \in starts : b <= Len(s)}) |->
           LET b == CHOOSE x \in starts :
                      /\ x <= Len(s)
                      /\ Cardinality({y \in starts : y < x}) = k - 1
           IN  SubSeq(s, b, stop(b))]

(* self.prompt_templates: the eight prompt templates, character by character. *)
prompt_templates ==
  <<
    << "W", "r", "i", "t", "e", " ", "a", " ", "s", "h", "o", "r", "t", ",", " ", "e", "n", "g", "a", "g",
       "i", "n", "g", " ", "t", "w", "e", "e", "t", " ", "f", "o", "r", " ", "C", "r", "y", "p", "t", "o",
       "X", "p", "r", "e", "s", "s", " ", "a", "b", "o", "u", "t", " ", "m", "a", "k", "i", "n", "g", " ",
       "c", "r", "y", "p", "t", "o", " ", "e", "a", "s", "y", " ", "f", "o", "r", " ", "e", "v", "e", "r",
       "y", "d", "a", "y", " ", "u", "s", "e", ".", " ", "K", "e", "e", "p", " ", "i", "t", " ", "u", "n",
       "d", "e", "r", " ", "2", "6", "0", " ", "c", "h", "a", "r", "a", "c", "t", "e", "r", "s", "." >>,
    << "C", "r", "e", "a", "t", "e", " ", "a", " ", "t", "w", "e", "e", "t", " ", "f", "o", "r", " ", "C",
       "r", "y", "p", "t", "o", "X", "p", "r", "e", "s", "s", " ", "h", "i", "g", "h", "l", "i", "g", "h",
       "t", "i", "n", "g", " ", "o", "u", "r", " ", "n", "o", "-", "c", "o", "m", "m", "i", "s", "s", "i",
       "o", "n", " ", "t", "r", "a", "d", "i", "n", "g", " ", "f", "e", "a", "t", "u", "r", "e", ".", " ",
       "K", "e", "e", "p", " ", "i", "t", " ", "u", "n", "d", "e", "r", " ", "2", "6", "0", " ", "c", "h",
       "a", "r", "a", "c", "t", "e", "r", "s", "." >>,
    << "W", "r", "i", "t", "e", " ", "a", " ", "t", "w", "e", "e", "t", " ", "f", "o", "r", " ", "C", "r",
       "y", "p", "t", "o", "X", "p", "r", "e", "s", "s", " ", "a", "b", "o", "u", "t", " ", "u", "s", "i",
       "n", "g", " ", "c", "r", "y", "p", "t", "o", " ", "f", "o", "r", " ", "t", "r", "a", "v", "e", "l",
       " ", "b", "o", "o", "k", "i", "n", "g", "s", ".", " ", "K", "e", "e", "p", " ", "i", "t", " ", "u",
       "n", "d", "e", "r", " ", "2", "6", "0", " ", "c", "h", "a", "r", "a", "c", "t", "e", "r", "s", "." >>,
    << "C", "r", "e", "a", "t", "e", " ", "a", " ", "t", "w", "e", "e", "t", " ", "f", "o", "r", " ", "C",
       "r", "y", "p", "t", "o", "X", "p", "r", "e", "s", "s", " ", "a", "b", "o", "u", "t", " ", "p", "a",
       "y", "i", "n", "g", " ", "b", "i", "l", "l", "s", " ", "w", "i", "t", "h", " ", "c", "r", "y", "p",
       "t", "o", ".", " ", "K", "e", "e", "p", " ", "i", "t", " ", "u", "n", "d", "e", "r", " ", "2", "6",
       "0", " ", "c", "h", "a", "r", "a", "c", "t", "e", "r", "s", "." >>,
    << "W", "r", "i", "t", "e", " ", "a", "n", " ", "e", "n", "g", "a", "g", "i", "n", "g", " ", "t", "w",
       "e", "e", "t", " ", "f", "o", "r", " ", "C", "r", "y", "p", "t", "o", "X", "p", "r", "e", "s", "s",
       " ", "a", "b", "o", "u", "t", " ", "o", "u", "r", " ", "d", "i", "g", "i", "t", "a", "l", " ", "w",
       "a", "l", "l", "e", "t", " ", "f", "e", "a", "t", "u", "r", "e", "s", ".", " ", "K", "e", "e", "p",
       " ", "i", "t", " ", "u", "n", "d", "e", "r", " ", "2", "6", "0", " ", "c", "h", "a", "r", "a", "c",
       "t", "e", "r", "s", "." >>,
    << "C", "r", "e", "a", "t", "e", " ", "a", " ", "t", "w", "e", "e", "t", " ", "f", "o", "r", " ", "C",
       "r", "y", "p", "t", "o", "X", "p", "r", "e", "s", "s", " ", "a", "b", "o", "u", "t", " ", "m", "a",
       "n", "a", "g", "i", "n", "g", " ", "N", "F", "T", "s", " ", "i", "n", " ", "o", "u", "r", " ", "p",
       "l", "a", "t", "f", "o", "r", "m", ".", " ", "K", "e", "e", "p", " ", "i", "t", " ", "u", "n", "d",
       "e", "r", " ", "2", "6", "0", " ", "c", "h", "a", "r", "a", "c", "t", "e", "r", "s", "." >>,
    << "W", "r", "i", "t", "e", " ", "a", " ", "t", "w", "e", "e", "t", " ", "f", "o", "r", " ", "C", "r",
       "y", "p", "t", "o", "X", "p", "r", "e", "s", "s", " ", "e", "m", "p", "h", "a", "s", "i", "z", "i",
       "n", "g", " ", "o", "u", "r", " ", "3", "0", "0", "+", " ", "c", "r", "y", "p", "t", "o", "c", "u",
       "r", "r", "e", "n", "c", "i", "e", "s", " ", "a", "n", "d", " ", "9", "0", "0", "+", " ", "t", "r",
       "a", "d", "i", "n", "g", " ", "p", "a", "i", "r", "s", ".", " ", "K", "e", "e", "p", " ", "i", "t",
       " ", "u", "n", "d", "e", "r", " ", "2", "6", "0", " ", "c", "h", "a", "r", "a", "c", "t", "e", "r",
       "s", "." >>,
    << "C", "r", "e", "a", "t", "e", " ", "a", " ", "t", "w", "e", "e", "t", " ", "f", "o", "r", " ", "C",
       "r", "y", "p", "t", "o", "X", "p", "r", "e", "s", "s", " ", "a", "b", "o", "u", "t", " ", "b", "e",
       "i", "n", "g", " ", "t", "h", "e", " ", "b", "r", "i", "d", "g", "e", " ", "b", "e", "t", "w", "e",
       "e", "n", " ", "c", "r", "y", "p", "t", "o", " ", "a", "n", "d", " ", "e", "v", "e", "r", "y", "d",
       "a", "y", " ", "l", "i", "f", "e", ".", " ", "K", "e", "e", "p", " ", "i", "t", " ", "u", "n", "d",
       "e", "r", " ", "2", "6", "0", " ", "c", "h", "a", "r", "a", "c", "t", "e", "r", "s", "." >>
  >>

(* self.hashtags: the thirteen hashtags. *)
hashtags ==
  <<
    << "#", "C", "r", "y", "p", "t", "o", "X", "p", "r", "e", "s", "s" >>,
    << "#", "C", "X" >>,
    << "#", "C", "r", "y", "p", "t", "o" >>,
    << "#", "C", "r", "y", "p", "t", "o", "c", "u", "r", "r", "e", "n", "c", "y" >>,
    << "#", "N", "F", "T" >>,
    << "#", "T", "r", "a", "d", "i", "n", "g" >>,
    << "#", "C", "r", "y", "p", "t", "o", "T", "r", "a", "d", "i", "n", "g" >>,
    << "#", "C", "r", "y", "p", "t", "o", "P", "a", "y", "m", "e", "n", "t", "s" >>,
    << "#", "D", "i", "g", "i", "t", "a", "l", "W", "a", "l", "l", "e", "t" >>,
    << "#", "C", "r", "y", "p", "t", "o", "T", "r", "a", "v", "e", "l" >>,
    << "#", "C", "r", "y", "p", "t", "o", "S", "h", "o", "p", "p", "i", "n", "g" >>,
    << "#", "C", "r", "y", "p", "t", "o", "L", "i", "f", "e" >>,
    << "#", "C", "r", "y", "p", "t", "o", "M", "a", "d", "e", "E", "a", "s", "y" >>
  >>

(* self.backup_tweets: the eight canned tweets. *)
backup_tweets ==
  <<
    << "B", "u", "y", " ", "a", "n", "d", " ", "s", "e", "l", "l", " ", "o", "v", "e", "r", " ", "3", "0",
       "0", " ", "c", "r", "y", "p", "t", "o", "c", "u", "r", "r", "e", "n", "c", "i", "e", "s", " ", "w",
       "i", "t", "h", " ", "9", "0", "0", "+", " ", "t", "r", "a", "d", "i", "n", "g", " ", "p", "a", "i",
       "r", "s", " ", "u", "s", "i", "n", "g", " ", "o", "n", "l", "y", " ", "3", " ", "c", "l", "i", "c",
       "k", "s", ",", " ", "w", "i", "t", "h", "o", "u", "t", " ", "p", "a", "y", "i", "n", "g", " ", "a",
       "n", "y", " ", "c", "o", "m", "m", "i", "s", "s", "i", "o", "n", "s", ".", " ", "#", "C", "r", "y",
       "p", "t", "o", "X", "p", "r", "e", "s", "s", " ", "#", "C", "r", "y", "p", "t", "o", "M", "a", "d",
       "e", "E", "a", "s", "y" >>,
    << "B", "o", "o", "k", " ", "f", "l", "i", "g", "h", "t", "s", ",", " ", "a", "c", "c", "o", "m", "m",
       "o", "d", "a", "t", "i", "o", "n", ",", " ", "t", "o", "u", "r", "s", ",", " ", "r", "e", "n", "t",
       "a", "l", " ", "c", "a", "r", "s", " ", "a", "n", "d", " ", "m", "u", "c", "h", " ", "m", "o", "r",
       "e", " ", "d", "i", "r", "e", "c", "t", "l", "y", " ", "f", "r", "o", "m", " ", "C", "r", "y", "p",
       "t", "o", "X", "p", "r", "e", "s", "s", ".", " ", "Y", "o", "u", "r", " ", "c", "r", "y", "p", "t",
       "o", ",", " ", "y", "o", "u", "r", " ", "t", "r", "a", "v", "e", "l", " ", "p", "l", "a", "n", "s",
       "!", " ", "#", "C", "r", "y", "p", "t", "o", "T", "r", "a", "v", "e", "l", " ", "#", "C", "X" >>,
    << "W", "e", "'", "r", "e", " ", "o", "n", " ", "a", " ", "m", "i", "s", "s", "i", "o", "n", " ", "t",
       "o", " ", "m", "a", "k", "e", " ", "c", "r", "y", "p", "t", "o", " ", "e", "a", "s", "y", "!", " ",
       "C", "r", "y", "p", "t", "o", "X", "p", "r", "e", "s", "s", " ", "i", "s", " ", "t", "h", "e", " ",
       "b", "r", "i", "d", "g", "e", " ", "b", "e", "t", "w", "e", "e", "n", " ", "y", "o", "u", "r", " ",
       "c", "r", "y", "p", "t", "o", " ", "w", "o", "r", "l", "d", " ", "a", "n", "d", " ", "e", "v", "e",
       "r", "y", "d", "a", "y", " ", "l", "i", "f", "e", ".", " ", "#", "C", "r", "y", "p", "t", "o", "X",
       "p", "r", "e", "s", "s", " ", "#", "C", "r", "y", "p", "t", "o", "L", "i", "f", "e" >>,
    << "P", "a", "y", " ", "b", "i", "l", "l", "s", ",", " ", "t", "r", "a", "n", "s", "f", "e", "r", " ",
       "m", "o", "n", "e", "y", ",", " ", "a", "n", "d", " ", "m", "a", "i", "n", "t", "a", "i", "n", " ",
       "y", "o", "u", "r", " ", "c", "r", "y", "p", "t", "o", "c", "u", "r", "r", "e", "n", "c", "y", " ",
       "h", "o", "l", "d", "i", "n", "g", "s", " ", "a", "l", "l", " ", "i", "n", " ", "o", "n", "e", " ",
       "d", "i", "g", "i", "t", "a", "l", " ", "w", "a", "l", "l", "e", "t", ".", " ", "T", "h", "a", "t",
       "'", "s", " ", "t", "h", "e", " ", "C", "r", "y", "p", "t", "o", "X", "p", "r", "e", "s", "s", " ",
       "w", "a", "y", "!", " ", "#", "D", "i", "g", "i", "t", "a", "l", "W", "a", "l", "l", "e", "t", " ",
       "#", "C", "r", "y", "p", "t", "o", "P", "a", "y", "m", "e", "n", "t", "s" >>,
    << "T", "r", "a", "d", "i", "n", "g", " ", "c", "r", "y", "p", "t", "o", " ", "s", "h", "o", "u", "l",
       "d", "n", "'", "t", " ", "b", "e", " ", "r", "o", "c", "k", "e", "t", " ", "s", "c", "i", "e", "n",
       "c", "e", ".", " ", "W", "i", "t", "h", " ", "C", "r", "y", "p", "t", "o", "X", "p", "r", "e", "s",
       "s", ",", " ", "i", "t", "'", "s", " ", "j", "u", "s", "t", " ", "3", " ", "c", "l", "i", "c", "k",
       "s", " ", "t", "o", " ", "b", "u", "y", " ", "a", "n", "d", " ", "s", "e", "l", "l", " ", "-", " ",
       "c", "o", "m", "m", "i", "s", "s", "i", "o", "n", "-", "f", "r", "e", "e", "!", " ", "#", "C", "r",
       "y", "p", "t", "o", "T", "r", "a", "d", "i", "n", "g", " ", "#", "C", "X" >>,
    << "F", "r", "o", "m", " ", "N", "F", "T", "s", " ", "t", "o", " ", "b", "i", "l", "l", " ", "p", "a",
       "y", "m", "e", "n", "t", "s", ",", " ", "C", "r", "y", "p", "t", "o", "X", "p", "r", "e", "s", "s",
       " ", "b", "r", "i", "n", "g", "s", " ", "e", "v", "e", "r", "y", "t", "h", "i", "n", "g", " ", "t",
       "o", "g", "e", "t", "h", "e", "r", " ", "i", "n", " ", "o", "n", "e", " ", "b", "e", "s", "t", "-",
       "i", "n", "-", "c", "l", "a", "s", "s", " ", "d", "i", "g", "i", "t", "a", "l", " ", "e", "x", "p",
       "e", "r", "i", "e", "n", "c", "e", ".", " ", "#", "N", "F", "T", " ", "#", "C", "r", "y", "p", "t",
       "o", "M", "a", "d", "e", "E", "a", "s", "y" >>,
    << "W", "h", "y", " ", "k", "e", "e", "p", " ", "y", "o", "u", "r", " ", "c", "r", "y", "p", "t", "o",
       " ", "l", "o", "c", "k", "e", "d", " ", "a", "w", "a", "y", "?", " ", "U", "s", "e", " ", "i", "t",
       " ", "t", "o", " ", "b", "o", "o", "k", " ", "y", "o", "u", "r", " ", "n", "e", "x", "t", " ", "v",
       "a", "c", "a", "t", "i", "o", "n", " ", "w", "i", "t", "h", " ", "C", "r", "y", "p", "t", "o", "X",
       "p", "r", "e", "s", "s", "!", " ", "#", "C", "r", "y", "p", "t", "o", "T", "r", "a", "v", "e", "l",
       " ", "#", "C", "r", "y", "p", "t", "o", "S", "h", "o", "p", "p", "i", "n", "g" >>,
    << "O", "v", "e", "r", " ", "3", "0", "0", " ", "c", "r", "y", "p", "t", "o", "c", "u", "r", "r", "e",
       "n", "c", "i", "e", "s", ",", " ", "9", "0", "0", "+", " ", "t", "r", "a", "d", "i", "n", "g", " ",
       "p", "a", "i", "r", "s", ",", " ", "0", " ", "c", "o", "m", "m", "i", "s", "s", "i", "o", "n", "s",
       ".", " ", "T", "h", "a", "t", "'", "s", " ", "t", "h", "e", " ", "C", "r", "y", "p", "t", "o", "X",
       "p", "r", "e", "s", "s", " ", "a", "d", "v", "a", "n", "t", "a", "g", "e", "!", " ", "#", "C", "r",
       "y", "p", "t", "o", "T", "r", "a", "d", "i", "n", "g", " ", "#", "C", "X" >>
  >>

(* The f-string context: the text before {prompt_template} ... *)
ContextHead ==
    << "\n", " ", " ", " ", " ", " ", " ", " ", " ", " ", " ", " ", " ", "C", "r", "y", "p", "t", "o", "X",
       "p", "r", "e", "s", "s", " ", "i", "s", " ", "a", " ", "p", "l", "a", "t", "f", "o", "r", "m", " ",
       "t", "h", "a", "t", " ", "m", "a", "k", "e", "s", " ", "c", "r", "y", "p", "t", "o", " ", "e", "a",
       "s", "y", " ", "f", "o", "r", " ", "e", "v", "e", "r", "y", "d", "a", "y", " ", "u", "s", "e", ".",
       "\n", " ", " ", " ", " ", " ", " ", " ", " ", " ", " ", " ", " ", "K", "e", "y", " ", "f", "e", "a",
       "t", "u", "r", "e", "s", ":", "\n", " ", " ", " ", " ", " ", " ", " ", " ", " ", " ", " ", " ", "-",
       " ", "T", "r", "a", "d", "e", " ", "3", "0", "0", "+", " ", "c", "r", "y", "p", "t", "o", "c", "u",
       "r", "r", "e", "n", "c", "i", "e", "s", " ", "w", "i", "t", "h", " ", "9", "0", "0", "+", " ", "t",
       "r", "a", "d", "i", "n", "g", " ", "p", "a", "i", "r", "s", " ", "w", "i", "t", "h", " ", "n", "o",
       " ", "c", "o", "m", "m", "i", "s", "s", "i", "o", "n", "s", "\n", " ", " ", " ", " ", " ", " ", " ",
       " ", " ", " ", " ", " ", "-", " ", "B", "o", "o", "k", " ", "t", "r", "a", "v", "e", "l", ",", " ",
       "a", "c", "c", "o", "m", "m", "o", "d", "a", "t", "i", "o", "n", ",", " ", "a", "n", "d", " ", "e",
       "x", "p", "e", "r", "i", "e", "n", "c", "e", "s", " ", "u", "s", "i", "n", "g", " ", "c", "r", "y",
       "p", "t", "o", "\n", " ", " ", " ", " ", " ", " ", " ", " ", " ", " ", " ", " ", "-", " ", "P", "a",
       "y", " ", "b", "i", "l", "l", "s", " ", "a", "n", "d", " ", "s", "e", "r", "v", "i", "c", "e", "s",
       " ", "w", "i", "t", "h", " ", "c", "r", "y", "p", "t", "o", "c", "u", "r", "r", "e", "n", "c", "y",
       "\n", " ", " ", " ", " ", " ", " ", " ", " ", " ", " ", " ", " ", "-", " ", "D", "i", "g", "i", "t",
       "a", "l", " ", "w", "a", "l", "l", "e", "t", " ", "f", "o", "r", " ", "c", "r", "y", "p", "t", "o",
       " ", "h", "o", "l", "d", "i", "n", "g", "s", "\n", " ", " ", " ", " ", " ", " ", " ", " ", " ", " ",
       " ", " ", "-", " ", "N", "F", "T", " ", "m", "a", "n", "a", "g", "e", "m", "e", "n", "t", "\n", " ",
       " ", " ", " ", " ", " ", " ", " ", " ", " ", " ", " ", "-", " ", "B", "r", "i", "d", "g", "e", " ",
       "b", "e", "t", "w", "e", "e", "n", " ", "c", "r", "y", "p", "t", "o", " ", "w", "o", "r", "l", "d",
       " ", "a", "n", "d", " ", "e", "v", "e", "r", "y", "d", "a", "y", " ", "l", "i", "f", "e", "\n", " ",
       " ", " ", " ", " ", " ", " ", " ", " ", " ", " ", " ", "\n", " ", " ", " ", " ", " ", " ", " ", " ",
       " ", " ", " ", " " >>

(* ... and the text after it (a line break and the indentation). *)
ContextTail ==
    << "\n", " ", " ", " ", " ", " ", " ", " ", " ", " ", " ", " ", " " >>
(* The three-character marker appended after a cut at 277 characters. *)
Ellipsis == << ".", ".", "." >>

(* The context sent to a backend: the f-string around prompt_templates[t]. *)
Context(t) == ContextHead \o prompt_templates[t] \o ContextTail

(***************************************************************************)
(* Optional values: Python's None beside a value.                          *)
(***************************************************************************)

NoText == [none |-> TRUE, text |-> << >>]

SomeText(s) == [none |-> FALSE, text |-> s]

NoNumber == [none |-> TRUE, val |-> 0]

SomeNumber(n) == [none |-> FALSE, val |-> n]

(* Python truth of an optional text ("if tweet_text") and number. *)
TruthyText(o) == ~o.none /\ Len(o.text) > 0

(* A test for None instead of a truth test: 0 counts as a value. *)
TruthyNumber_not_none(o) == ~o.none

TruthyNumber(o) == ~o.none /\ o.val # 0

(***************************************************************************)
(* What a backend can answer to requests.post.  raises: the call raised;   *)
(* status_code; shape of the JSON body ("list": a non-empty list of        *)
(* objects, "emptylist", "object", "notjson": json() raises); field: the   *)
(* generated_text entry is a string ("text"), absent ("missing") or not a  *)
(* string ("nonstring"); echo: the string starts with the context sent.    *)
(***************************************************************************)
Response(raises, status, shape, field, echo, text) ==
    [raises |-> raises, status_code |-> status, shape |-> shape,
     field |-> field, echo |-> echo, text |-> text]

(* The generated_text string of an answer to the context ctx. *)
GeneratedText(resp, ctx) ==
    IF resp.field = "missing" THEN << >>
    ELSE IF resp.echo THEN ctx \o resp.text ELSE resp.text

(* Lines 172 and 233: strip('"\'').strip() *)
CleanUp(text) == Strip(Strip(text, QuoteChars), Whitespace)

(* A hashtag added to any text under 280 characters. *)
AddHashtag_below_280(text, h) ==
    IF Len(text) < 280 /\ ~HasChar(text, "#")
    THEN text \o << " " >> \o hashtags[h]
    ELSE text

(* A hashtag added only to a text that is not empty. *)
AddHashtag_unless_empty(text, h) ==
    IF Len(text) > 0 /\ Len(text) < 260 /\ ~HasChar(text, "#")
    THEN text \o << " " >> \o hashtags[h]
    ELSE text

(* Lines 175-177 and 236-238: hashtags[h] is appended to a text under *)
(* 260 characters that has no '#'.                                    *)
AddHashtag(text, h) ==
    IF Len(text) < 260 /\ ~HasChar(text, "#")
    THEN text \o << " " >> \o hashtags[h]
    ELSE text

(* A cut that keeps 280 characters before the marker. *)
Truncate_keeps_280(text) ==
    IF Len(text) > 280 THEN TakeFirst(text, 280) \o Ellipsis ELSE text

(* Lines 179-180 and 240-241: a text over 280 characters is cut to 277 *)
(* and the marker appended.                                            *)
Truncate(text) ==
    IF Len(text) > 280 THEN TakeFirst(text, 277) \o Ellipsis ELSE text

(* generate_tweet_with_huggingface, for the backend's answer resp, the *)
(* template index t of random.choice and the index h of random.sample. *)
generate_tweet_with_huggingface(resp, t, h) ==
    LET context == Context(t)
    IN  IF resp.raises THEN NoText
        ELSE IF resp.status_code # 200 THEN NoText
        ELSE IF resp.shape = "notjson" THEN NoText
        ELSE IF resp.shape # "list" THEN NoText
        ELSE IF resp.field = "nonstring" THEN NoText
        ELSE
          LET generated_text == GeneratedText(resp, context)
              unprompted ==
                IF StartsWith(generated_text, context)
                THEN Strip(DropFirst(generated_text, Len(context)), Whitespace)
                ELSE generated_text
          IN  SomeText(Truncate(AddHashtag(CleanUp(unprompted), h)))

(* generate_tweet_with_textgen: the body is an object, and the context *)
(* is not removed from the generated text.                             *)
generate_tweet_with_textgen(resp, t, h) ==
    LET context == Context(t)
    IN  IF resp.raises THEN NoText
        ELSE IF resp.status_code # 200 THEN NoText
        ELSE IF resp.shape = "notjson" THEN NoText
        ELSE IF resp.shape # "object" THEN NoText
        ELSE IF resp.field = "nonstring" THEN NoText
        ELSE
          LET generated_text == GeneratedText(resp, context)
          IN  SomeText(Truncate(AddHashtag(CleanUp(generated_text), h)))

(***************************************************************************)
(* The posted-tweets store and its log, posted_tweets.txt                  *)
(***************************************************************************)

(* load_posted_tweets: the set after loading into old.  exists: the file  *)
(* is there; content: its characters; fault: NoNumber when reading works, *)
(* SomeNumber(k) when it raises after k lines were read (0: open raises). *)
load_posted_tweets(old, exists, content, fault) ==
    IF ~exists THEN old
    ELSE LET lines == FileLines(content)
             n == IF fault.none \/ fault.val > Len(lines)
                  THEN Len(lines) ELSE fault.val
         IN  old \cup {Strip(lines[i], Whitespace) : i \in 1..n}

(* save_posted_tweet: the file content after the call; fails: open or *)
(* write raised, which is logged and swallowed.                       *)
save_posted_tweet(content, tweet, fails) ==
    IF fails THEN content ELSE content \o tweet \o << "\n" >>

(* The log a previous run leaves after posting backup_tweets[1..n] in order. *)
RECURSIVE LogOfBackups(_)
LogOfBackups(n) ==
    IF n = 0 THEN << >>
    ELSE save_posted_tweet(LogOfBackups(n - 1), backup_tweets[n], FALSE)

(***************************************************************************)
(* Bounds and inputs                                                       *)
(***************************************************************************)

(* Cycles of the run loop that are followed. *)
MaxCycles == 2

(* The hashtags random.sample is followed for: the shortest, "#CX", *)
(* and the first of the longest, "#Cryptocurrency".                 *)
HashtagDraws == {2, 4}

(* Texts a backend generates. *)
BackendTexts ==
    { << >>,
      << "g", "m" >>,
      << "g", "m", " ", "#", "C", "X" >>,
      << "a", "\n", "b" >>,
      Rep("a", 300) }

(* Answers of a backend: failures, and status 200 with a generated text. *)
Responses ==
    { Response(TRUE, 0, "notjson", "missing", FALSE, << >>),
      Response(FALSE, 503, "notjson", "missing", FALSE, << >>) }
    \cup { Response(FALSE, 200, shape, "text", FALSE, s) :
             shape \in {"list", "object"}, s \in BackendTexts }
    \cup { Response(FALSE, 200, shape, "text", TRUE, << "g", "m" >>) :
             shape \in {"list", "object"} }

(* The logs found at startup: none, and that of earlier runs which *)
(* posted every backup tweet.                                      *)
InitialLogs ==
    { [exists |-> FALSE, content |-> << >>],
      [exists |-> TRUE, content |-> LogOfBackups(Len(backup_tweets))] }

(* Reading the log at startup works, or raises after five lines. *)
StartupFaults == {NoNumber, SomeNumber(5)}

(* The arguments of run: interval_minutes, randomize_interval and *)
(* max_runtime_hours.                                             *)
RunArgs ==
    { << 60, TRUE, SomeNumber(1) >>,
      << 60, FALSE, NoNumber >>,
      << 60, FALSE, SomeNumber(0) >>,
      << -1, FALSE, SomeNumber(1) >> }

(* random.uniform(a, b), sampled at its ends. *)
Uniform(a, b) == {a, b}

(***************************************************************************)
(* State                                                                   *)
(***************************************************************************)
VARIABLES
    posted_tweets,      \* self.posted_tweets
    log_exists,         \* posted_tweets.txt exists
    log_content,        \* the characters of posted_tweets.txt
    pc,                 \* where the program is
    interval_minutes,   \* arguments of run
    randomize_interval,
    max_runtime_hours,
    end_time,           \* run's end_time (optional)
    now,                \* time.time(), seconds since run was called
    tweet_text,         \* post_tweet's tweet_text (optional), in the iteration
    success,            \* run's success, the result of post_tweet
    next_interval,      \* run's next_interval, in seconds (optional)
    cycles,             \* loop iterations begun
    via,                \* which path gave tweet_text: "hf", "tg", "pool", "none"
    calls,              \* the selector's calls of its methods so far, in order
    created,            \* the texts given to create_tweet in the iteration
    before,             \* posted_tweets and the log when the iteration began
    outcome,            \* the last iteration: "none", "posted", "failed", "error"
    slept,              \* the last iteration: the lengths of its sleeps, in order
    history,            \* this process: the texts create_tweet accepted, and
                        \* those of them save_posted_tweet wrote to the log;
                        \* earlier processes: the texts they wrote to the log
    drawn               \* the backends' answer and the random draws, where
                        \* they are fixed in advance

vars == << posted_tweets, log_exists, log_content, pc, interval_minutes,
           randomize_interval, max_runtime_hours, end_time, now, tweet_text,
           success, next_interval, cycles, via, calls, created, outcome, slept,
           before, history, drawn >>

store == << posted_tweets, log_exists, log_content >>

args == << interval_minutes, randomize_interval, max_runtime_hours, end_time >>

(* A call made in an iteration: the callee and what it returned. *)
Call(name, result) == [name |-> name, result |-> result]

(* Nothing published or written by this process yet. *)
NoHistory == [published |-> {}, appended |-> {}, earlier |-> {}]

(* No answer and no draws fixed in advance. *)
NoDraw == [resp |-> Response(TRUE, 0, "notjson", "missing", FALSE, << >>),
           t |-> 1, h |-> 1]

(* __init__: the store is empty and then loaded from the log. *)
Init ==
    /\ \E l \in InitialLogs :
       \E fault \in StartupFaults :
         /\ log_exists = l.exists
         /\ log_content = l.content
         /\ posted_tweets = load_posted_tweets({}, l.exists, l.content, fault)
    /\ pc = "constructed"
    /\ interval_minutes = 60
    /\ randomize_interval = TRUE
    /\ max_runtime_hours = NoNumber
    /\ end_time = NoNumber
    /\ now = 0
    /\ tweet_text = NoText
    /\ success = FALSE
    /\ next_interval = NoNumber
    /\ cycles = 0
    /\ via = "none"
    /\ calls = << >>
    /\ created = << >>
    /\ outcome = "none"
    /\ slept = << >>
    /\ before = [posted |-> {}, log |-> << >>]
    /\ history = NoHistory
    /\ drawn = NoDraw

(***************************************************************************)
(* run                                                                     *)
(***************************************************************************)

(* run is called: lines 307-312 set end_time. *)
Run(interval, randomize, hours) ==
    /\ pc = "constructed"
    /\ interval_minutes' = interval
    /\ randomize_interval' = randomize
    /\ max_runtime_hours' = hours
    /\ end_time' = IF TruthyNumber(hours)
                   THEN SomeNumber(now + hours.val * 3600)
                   ELSE NoNumber
    /\ pc' = "top"
    /\ UNCHANGED << store, now, tweet_text, success, next_interval, cycles,
                    via, calls, created, outcome, slept, before, history,
                    drawn >>

(* A test at the top of the loop with its comparison reversed. *)
DeadlinePassed_reversed == TruthyNumber(end_time) /\ now < end_time.val

(* The test at the top of the loop: the runtime limit has been reached. *)
DeadlinePassed == TruthyNumber(end_time) /\ now > end_time.val

(* while True: ... break *)
Stop ==
    /\ pc = "top"
    /\ DeadlinePassed
    /\ pc' = "stopped"
    /\ UNCHANGED << store, args, now, tweet_text, success, next_interval,
                    cycles, via, calls, created, outcome, slept, before,
                    history, drawn >>

(* The loop body begins: post_tweet is called and calls the selector. *)
(* Iterations are followed up to the limit-th.                        *)
BeginCycleWithin(limit) ==
    /\ pc = "top"
    /\ ~DeadlinePassed
    /\ cycles < limit
    /\ cycles' = cycles + 1
    /\ pc' = "huggingface"
    /\ tweet_text' = NoText
    /\ success' = FALSE
    /\ next_interval' = NoNumber
    /\ via' = "none"
    /\ calls' = << >>
    /\ created' = << >>
    /\ outcome' = "none"
    /\ slept' = << >>
    /\ before' = [posted |-> posted_tweets, log |-> log_content]
    /\ UNCHANGED << store, args, now, history, drawn >>

BeginCycle == BeginCycleWithin(MaxCycles)

(***************************************************************************)
(* get_ai_generated_content                                                *)
(***************************************************************************)

(* A selector that returns any non-empty text, duplicate or not. *)
Accepted_any(result, posted) == TruthyText(result)

(* Lines 265-270: the generated text is returned: it is non-empty and *)
(* not a duplicate.                                                    *)
Accepted(result, posted) == TruthyText(result) /\ result.text \notin posted

(* A pool that is never filtered by posted_tweets. *)
available_tweets_unfiltered(posted) == 1..Len(backup_tweets)

(* A pool that is filtered and never reset. *)
available_tweets_no_reset(posted) ==
    {i \in 1..Len(backup_tweets) : backup_tweets[i] \notin posted}

(* Lines 276-279: the indices of the backup tweets to choose from. *)
available_tweets(posted) ==
    LET unposted == {i \in 1..Len(backup_tweets) : backup_tweets[i] \notin posted}
    IN  IF unposted = {} THEN 1..Len(backup_tweets) ELSE unposted

(* Every text or None a generator can return, over the answers of its    *)
(* backend, the templates of random.choice and the hashtags of            *)
(* random.sample.                                                         *)
HuggingFaceResults ==
    { generate_tweet_with_huggingface(resp, t, h) :
        resp \in Responses, t \in 1..Len(prompt_templates),
        h \in HashtagDraws }

TextGenResults ==
    { generate_tweet_with_textgen(resp, t, h) :
        resp \in Responses, t \in 1..Len(prompt_templates),
        h \in HashtagDraws }

(* First method of the loop at 262, returning result. *)
TryHuggingFace(result) ==
    /\ pc = "huggingface"
    /\ calls' = Append(calls, Call("huggingface", result))
    /\ IF Accepted(result, posted_tweets)
       THEN tweet_text' = result /\ via' = "hf" /\ pc' = "publish"
       ELSE tweet_text' = tweet_text /\ via' = via /\ pc' = "textgen"
    /\ UNCHANGED << store, args, now, success, next_interval, cycles,
                    created, outcome, slept, before, history, drawn >>

(* Second method of the loop at 262, returning result. *)
TryTextGen(result) ==
    /\ pc = "textgen"
    /\ calls' = Append(calls, Call("textgen", result))
    /\ IF Accepted(result, posted_tweets)
       THEN tweet_text' = result /\ via' = "tg" /\ pc' = "publish"
       ELSE tweet_text' = tweet_text /\ via' = via /\ pc' = "backup"
    /\ UNCHANGED << store, args, now, success, next_interval, cycles,
                    created, outcome, slept, before, history, drawn >>

(* Lines 276-281: random.choice among the available backup tweets. *)
UseBackup(i) ==
    /\ pc = "backup"
    /\ i \in available_tweets(posted_tweets)
    /\ tweet_text' = SomeText(backup_tweets[i])
    /\ via' = "pool"
    /\ pc' = "publish"
    /\ UNCHANGED << store, args, now, success, next_interval, cycles, calls,
                    created, outcome, slept, before, history, drawn >>

(***************************************************************************)
(* post_tweet                                                              *)
(***************************************************************************)

(* A post_tweet that records the tweet before create_tweet is called. *)
Publish_records_first(raises) ==
    /\ pc = "publish"
    /\ calls' = << >>
    /\ created' = Append(created, tweet_text.text)
    /\ posted_tweets' = posted_tweets \cup {tweet_text.text}
    /\ log_content' = save_posted_tweet(log_content, tweet_text.text, FALSE)
    /\ log_exists' = TRUE
    /\ IF raises
       THEN success' = FALSE /\ outcome' = "failed" /\ pc' = "sleep"
       ELSE success' = TRUE /\ outcome' = "posted" /\ pc' = "sleep"
    /\ UNCHANGED << args, now, tweet_text, next_interval, cycles, via,
                    slept, before, history, drawn >>

(* A post_tweet without its handler: the exception of create_tweet *)
(* leaves run.                                                     *)
Publish_propagates(raises) ==
    /\ pc = "publish"
    /\ calls' = << >>
    /\ created' = Append(created, tweet_text.text)
    /\ IF raises
       THEN success' = FALSE /\ outcome' = "failed" /\ pc' = "stopped"
       ELSE success' = success /\ outcome' = outcome /\ pc' = "persist"
    /\ UNCHANGED << store, args, now, tweet_text, next_interval, cycles,
                    via, slept, before, history, drawn >>

(* A post_tweet that calls create_tweet again when it has raised. *)
Publish_retries(raises) ==
    /\ pc = "publish"
    /\ calls' = << >>
    /\ IF raises
       THEN /\ created' = created \o << tweet_text.text, tweet_text.text >>
            /\ success' = FALSE /\ outcome' = "failed" /\ pc' = "sleep"
       ELSE /\ created' = Append(created, tweet_text.text)
            /\ success' = success /\ outcome' = outcome /\ pc' = "persist"
    /\ UNCHANGED << store, args, now, tweet_text, next_interval, cycles,
                    via, slept, before, history, drawn >>

(* Lines 285-292 and 300-302: the selector has returned; the content *)
(* test, then create_tweet, which returns or raises.                 *)
Publish(raises) ==
    /\ pc = "publish"
    /\ calls' = << >>
    /\ IF ~TruthyText(tweet_text)
       THEN /\ success' = FALSE /\ outcome' = "failed" /\ pc' = "sleep"
            /\ created' = created
       ELSE /\ created' = Append(created, tweet_text.text)
            /\ IF raises
               THEN success' = FALSE /\ outcome' = "failed" /\ pc' = "sleep"
               ELSE success' = success /\ outcome' = outcome /\ pc' = "persist"
    /\ UNCHANGED << store, args, now, tweet_text, next_interval, cycles,
                    via, slept, before, history, drawn >>

(* A post_tweet that writes the log and forgets the set. *)
Persist_log_only(fails) ==
    /\ pc = "persist"
    /\ log_content' = save_posted_tweet(log_content, tweet_text.text, fails)
    /\ log_exists' = (log_exists \/ ~fails)
    /\ history' = [history EXCEPT
                      !.published = @ \cup {tweet_text.text},
                      !.appended = IF fails THEN @ ELSE @ \cup {tweet_text.text}]
    /\ success' = TRUE
    /\ outcome' = "posted"
    /\ pc' = "sleep"
    /\ UNCHANGED << posted_tweets, args, now, tweet_text, next_interval,
                    cycles, via, calls, created, slept, before, drawn >>

(* A save_posted_tweet without its handler: a failed write makes *)
(* post_tweet return False.                                      *)
Persist_write_failure_fails(fails) ==
    /\ pc = "persist"
    /\ posted_tweets' = posted_tweets \cup {tweet_text.text}
    /\ log_content' = save_posted_tweet(log_content, tweet_text.text, fails)
    /\ log_exists' = (log_exists \/ ~fails)
    /\ history' = [history EXCEPT
                      !.published = @ \cup {tweet_text.text},
                      !.appended = IF fails THEN @ ELSE @ \cup {tweet_text.text}]
    /\ success' = ~fails
    /\ outcome' = IF fails THEN "failed" ELSE "posted"
    /\ pc' = "sleep"
    /\ UNCHANGED << args, now, tweet_text, next_interval, cycles, via,
                    calls, created, slept, before, drawn >>

(* Lines 295-299: the tweet is added to the set and to the log (the *)
(* write may fail), and post_tweet returns True.                    *)
Persist(fails) ==
    /\ pc = "persist"
    /\ posted_tweets' = posted_tweets \cup {tweet_text.text}
    /\ log_content' = save_posted_tweet(log_content, tweet_text.text, fails)
    /\ log_exists' = (log_exists \/ ~fails)
    /\ history' = [history EXCEPT
                      !.published = @ \cup {tweet_text.text},
                      !.appended = IF fails THEN @ ELSE @ \cup {tweet_text.text}]
    /\ success' = TRUE
    /\ outcome' = "posted"
    /\ pc' = "sleep"
    /\ UNCHANGED << args, now, tweet_text, next_interval, cycles, via,
                    calls, created, slept, before, drawn >>

(***************************************************************************)
(* run: the rest of the loop body                                          *)
(***************************************************************************)

(* An interval that is never taken from minutes to seconds. *)
NextInterval_in_minutes(interval, randomize, j) ==
    IF randomize THEN interval + j ELSE interval

(* Lines 326-331, in seconds: the base interval, or the base interval *)
(* plus the drawn variation j.                                        *)
NextInterval(interval, randomize, j) ==
    IF randomize THEN interval * 60 + j ELSE interval * 60

(* A variation of a quarter of the interval instead of a fifth. *)
Variations_quarter(interval) == Uniform(-(interval * 15), interval * 15)

(* Lines 328-329: what random.uniform(-variation, variation) can give, *)
(* in seconds (variation is a fifth of the interval).                  *)
Variations(interval) == Uniform(-(interval * 12), interval * 12)

(* Lines 324-348: the sleep that ends the iteration.  time.sleep raises *)
(* ValueError for a negative length, which the handler at 345 catches. *)
Sleep(j) ==
    /\ pc = "sleep"
    /\ j \in (IF success /\ randomize_interval
              THEN Variations(interval_minutes) ELSE {0})
    /\ IF success
       THEN LET secs == NextInterval(interval_minutes, randomize_interval, j)
            IN  /\ next_interval' = SomeNumber(secs)
                /\ IF secs < 0
                   THEN /\ outcome' = "error"
                        /\ slept' = Append(slept, 900)
                        /\ now' = now + 900
                   ELSE /\ outcome' = outcome
                        /\ slept' = Append(slept, secs)
                        /\ now' = now + secs
       ELSE /\ next_interval' = next_interval
            /\ outcome' = outcome
            /\ slept' = Append(slept, 600)
            /\ now' = now + 600
    /\ pc' = "top"
    /\ tweet_text' = NoText
    /\ via' = "none"
    /\ created' = << >>
    /\ before' = [posted |-> {}, log |-> << >>]
    /\ UNCHANGED << store, args, success, cycles, calls, history, drawn >>

Next ==
    \/ \E a \in RunArgs : Run(a[1], a[2], a[3])
    \/ Stop
    \/ BeginCycle
    \/ \E result \in HuggingFaceResults : TryHuggingFace(result)
    \/ \E result \in TextGenResults : TryTextGen(result)
    \/ \E i \in 1..Len(backup_tweets) : UseBackup(i)
    \/ \E raises \in BOOLEAN : Publish(raises)
    \/ \E fails \in BOOLEAN : Persist(fails)
    \/ \E j \in Variations(60) \cup Variations(-1) \cup {0} : Sleep(j)

Spec == Init /\ [][Next]_vars

(***************************************************************************)
(* The process ends and is started again                                   *)
(***************************************************************************)

(* The process ends between two iterations or after run has returned, *)
(* and a new one is constructed: __init__ loads the log, which is     *)
(* intact and read without error.  The iterations of all processes    *)
(* are counted together.                                              *)
Restart ==
    /\ pc \in {"top", "stopped"}
    /\ posted_tweets' = load_posted_tweets({}, log_exists, log_content, NoNumber)
    /\ pc' = "constructed"
    /\ interval_minutes' = 60
    /\ randomize_interval' = TRUE
    /\ max_runtime_hours' = NoNumber
    /\ end_time' = NoNumber
    /\ now' = 0
    /\ tweet_text' = NoText
    /\ success' = FALSE
    /\ next_interval' = NoNumber
    /\ via' = "none"
    /\ calls' = << >>
    /\ created' = << >>
    /\ outcome' = "none"
    /\ slept' = << >>
    /\ before' = [posted |-> {}, log |-> << >>]
    /\ history' = [published |-> {}, appended |-> {},
                   earlier |-> history.earlier \cup history.appended]
    /\ UNCHANGED << log_exists, log_content, cycles, drawn >>

(* What a generator returns in the runs that are restarted: None, and *)
(* its messages for an empty text and for "gm", with "#CX".           *)
RestartResults ==
    { NoText }
    \cup { generate_tweet_with_textgen(
               Response(FALSE, 200, "object", "text", FALSE, s), 1, 2) :
             s \in { << >>, << "g", "m" >> } }

RestartNext ==
    \/ \E a \in RunArgs : Run(a[1], a[2], a[3])
    \/ Stop
    \/ BeginCycle
    \/ \E result \in RestartResults : TryHuggingFace(result)
    \/ \E result \in RestartResults : TryTextGen(result)
    \/ \E i \in 1..Len(backup_tweets) : UseBackup(i)
    \/ \E raises \in BOOLEAN : Publish(raises)
    \/ \E fails \in BOOLEAN : Persist(fails)
    \/ \E j \in Variations(60) \cup Variations(-1) \cup {0} : Sleep(j)
    \/ Restart

RestartSpec == Init /\ [][RestartNext]_vars

(***************************************************************************)
(* One call of the selector, the backends' answer drawn in advance         *)
(***************************************************************************)

(* Texts a backend generates: empty, short, quoted, with a hashtag, with *)
(* a line break, and around the limits of 260 and 280 characters.        *)
DrawnTexts ==
    { << >>,
      << "g", "m" >>,
      << "\"", "g", "m", "\"", " " >>,
      << "g", "m", " ", "#", "C", "X" >>,
      << "a", "\n", "b" >>,
      Rep("a", 259),
      Rep("a", 260),
      Rep("a", 270),
      Rep("a", 280),
      Rep("a", 281),
      Rep("a", 300),
      Rep("a", 299) \o << "#" >> }

(* Texts a backend generates after echoing the context. *)
EchoedTexts == { << >>, << " ", "g", "m" >>, Rep("a", 300) }

(* Answers of a backend: an exception, a status other than 200, a body *)
(* that is not JSON, bodies of each shape with generated_text missing  *)
(* or not a string, and bodies of each shape with a generated text.    *)
DrawnResponses ==
    { Response(TRUE, 0, "notjson", "missing", FALSE, << >>),
      Response(FALSE, 503, "object", "text", FALSE, << "g", "m" >>),
      Response(FALSE, 200, "notjson", "missing", FALSE, << >>),
      Response(FALSE, 200, "emptylist", "missing", FALSE, << >>) }
    \cup { Response(FALSE, 200, shape, field, FALSE, << >>) :
             shape \in {"list", "object"}, field \in {"missing", "nonstring"} }
    \cup { Response(FALSE, 200, shape, "text", FALSE, s) :
             shape \in {"list", "object"}, s \in DrawnTexts }
    \cup { Response(FALSE, 200, shape, "text", TRUE, s) :
             shape \in {"list", "object"}, s \in EchoedTexts }

(* The templates random.choice is followed for: the first and the last. *)
TemplateDraws == {1, Len(prompt_templates)}

(* posted_tweets when the selector is called: empty, or holding the *)
(* message made of an empty text and the hashtag "#CX".             *)
DrawnPosted == { {}, { << " " >> \o hashtags[2] } }

(* The selector is called in a run without a runtime limit whose earlier *)
(* iterations published the messages of posted_tweets and failed to      *)
(* write them to the log.                                                *)
GenInit ==
    /\ \E resp \in DrawnResponses :
       \E t \in TemplateDraws :
       \E h \in 1..Len(hashtags) :
         drawn = [resp |-> resp, t |-> t, h |-> h]
    /\ posted_tweets \in DrawnPosted
    /\ log_exists = FALSE
    /\ log_content = << >>
    /\ pc = "huggingface"
    /\ interval_minutes = 60
    /\ randomize_interval = FALSE
    /\ max_runtime_hours = NoNumber
    /\ end_time = NoNumber
    /\ now = 3600 * Cardinality(posted_tweets)
    /\ tweet_text = NoText
    /\ success = FALSE
    /\ next_interval = NoNumber
    /\ cycles = Cardinality(posted_tweets) + 1
    /\ via = "none"
    /\ calls = << >>
    /\ created = << >>
    /\ outcome = "none"
    /\ slept = << >>
    /\ before = [posted |-> posted_tweets, log |-> log_content]
    /\ history = [published |-> posted_tweets, appended |-> {}, earlier |-> {}]

(* First method of the loop at 262, for the answer and the draws fixed *)
(* in advance.                                                         *)
HuggingFaceDrawn ==
    TryHuggingFace(generate_tweet_with_huggingface(drawn.resp, drawn.t, drawn.h))

(* Second method of the loop at 262, likewise. *)
TextGenDrawn ==
    TryTextGen(generate_tweet_with_textgen(drawn.resp, drawn.t, drawn.h))

GenNext ==
    \/ HuggingFaceDrawn
    \/ TextGenDrawn
    \/ \E i \in 1..Len(backup_tweets) : UseBackup(i)
    \/ \E raises \in BOOLEAN : Publish(raises)

GenSpec == GenInit /\ [][GenNext]_vars

(***************************************************************************)
(* run with a runtime limit, followed until it ends                        *)
(***************************************************************************)

(* The arguments of run: an hour of runtime, an interval of an hour, *)
(* randomized or not.                                                *)
LimitedRunArgs ==
    { << 60, TRUE, SomeNumber(1) >>,
      << 60, FALSE, SomeNumber(1) >> }

(* What a generator returns: None or a text. *)
LimitedResults == { NoText, SomeText(<< "g", "m", " " >> \o hashtags[2]) }

(* The iterations an hour has room for: none sleeps less than 600 *)
(* seconds, and one more begins at 3600 seconds exactly.          *)
LimitedCycles == 3600 \div 600 + 1

LimitedNext ==
    \/ \E a \in LimitedRunArgs : Run(a[1], a[2], a[3])
    \/ Stop
    \/ BeginCycleWithin(LimitedCycles)
    \/ \E result \in LimitedResults : TryHuggingFace(result)
    \/ \E result \in LimitedResults : TryTextGen(result)
    \/ \E i \in 1..Len(backup_tweets) : UseBackup(i)
    \/ \E raises \in BOOLEAN : Publish(raises)
    \/ \E fails \in BOOLEAN : Persist(fails)
    \/ \E j \in Variations(60) \cup {0} : Sleep(j)

(* Every call returns and every sleep ends: the process goes on as long *)
(* as it has a step to take.                                            *)
LimitedSpec == Init /\ [][LimitedNext]_vars /\ WF_vars(LimitedNext)

(***************************************************************************)
(* Properties                                                              *)
(***************************************************************************)

(* The indices of the backup tweets that are not in posted_tweets. *)
Unposted == {i \in 1..Len(backup_tweets) : backup_tweets[i] \notin posted_tweets}

(* The selector has just returned: post_tweet holds its result. *)
Selected == pc = "publish"

(* Both generators returned None in this call of the selector. *)
BothNone ==
    /\ Len(calls) = 2
    /\ calls[1].result.none
    /\ calls[2].result.none

(* C1: whenever some backup tweet is not in posted_tweets, the message  *)
(* the selector returns is not in posted_tweets; when it comes from the *)
(* pool it is one of the unposted backup tweets, and at the choice each *)
(* unposted backup tweet, and no other, can be the one returned.        *)
C1_NoDuplicateWhileUnposted ==
    /\ (Selected /\ Unposted # {}) =>
          /\ ~tweet_text.none
          /\ tweet_text.text \notin posted_tweets
          /\ via = "pool" =>
               \E i \in Unposted : tweet_text.text = backup_tweets[i]
    /\ (pc = "backup" /\ Unposted # {}) =>
          \A i \in 1..Len(backup_tweets) :
             (ENABLED UseBackup(i)) <=> (i \in Unposted)

(* C1 witness: both generators returned None, exactly 3 of the 8 backup *)
(* tweets were unposted, and the pool gave the message.                 *)
C1_Witness ==
    /\ Selected
    /\ via = "pool"
    /\ BothNone
    /\ Cardinality(Unposted) = 3
    /\ Len(backup_tweets) = 8

(* The line break save_posted_tweet writes after a tweet. *)
LineBreak == << "\n" >>

(* post_tweet has returned True and its write to the log went through. *)
SavedToLog ==
    /\ pc = "sleep"
    /\ success
    /\ log_content = before.log \o tweet_text.text \o LineBreak

(* post_tweet has returned True although its write to the log raised. *)
SaveFailed ==
    /\ pc = "sleep"
    /\ success
    /\ log_content = before.log

(* What a fresh process loads from the log as it is now. *)
Reloaded == load_posted_tweets({}, log_exists, log_content, NoNumber)

(* C2: a message that post_tweet has saved to the log is a member of *)
(* the set a fresh process loads from that log.                      *)
C2_RoundTrip == SavedToLog => tweet_text.text \in Reloaded

(* C3: every message the selector returns has at most 280 characters, *)
(* whichever path gave it.                                            *)
C3_AtMost280 ==
    Selected => /\ ~tweet_text.none
                /\ via \in {"hf", "tg", "pool"}
                /\ Len(tweet_text.text) <= 280

(* C3 witness: a generator's text was cut to exactly 280 characters. *)
C3_Witness ==
    /\ Selected
    /\ via = "hf"
    /\ Len(tweet_text.text) = 280
    /\ SubSeq(tweet_text.text, 278, 280) = Ellipsis

(* create_tweet was called in this iteration and raised. *)
PublishRaised ==
    /\ pc = "sleep"
    /\ outcome = "failed"
    /\ Len(created) = 1

(* C4: when create_tweet raises, post_tweet returns False (the loop is *)
(* at its wait, not ended), and posted_tweets and the log are as they  *)
(* were when the iteration began.                                      *)
C4_PublishFailureLeavesStore ==
    PublishRaised =>
       /\ ~success
       /\ posted_tweets = before.posted
       /\ log_content = before.log

(* C4 witness: create_tweet raised for a message that was never posted. *)
C4_Witness ==
    /\ PublishRaised
    /\ created[1] \notin posted_tweets
    /\ created[1] = tweet_text.text

(* C5: the loop is left only by the test at the top of an iteration    *)
(* finding the time past end_time: in the stopped state a runtime was  *)
(* configured, the time is past end_time and no iteration is under way; *)
(* without a configured runtime the loop is never left.                 *)
C5_StopOnlyAtDeadline ==
    /\ pc = "stopped" =>
          /\ ~max_runtime_hours.none
          /\ max_runtime_hours.val # 0
          /\ ~end_time.none
          /\ now > end_time.val
          /\ tweet_text = NoText
          /\ created = << >>
    /\ (max_runtime_hours.none \/ end_time.none) => pc # "stopped"

(* C5 witness: the loop stopped after an iteration whose post failed *)
(* and a later one.                                                  *)
C5_Witness ==
    /\ pc = "stopped"
    /\ cycles = 2
    /\ now = 600 + next_interval.val

(* An iteration has ended with its sleep and the next has not begun. *)
IterationDone == pc \in {"top", "stopped"} /\ cycles > 0

Usable(result) ==
    /\ ~result.none
    /\ result.text # << >>
    /\ result.text \notin posted_tweets

(* The names of the methods the selector has called, in order. *)
CallNames == [k \in 1..Len(calls) |-> calls[k].name]

(* C7: the selector calls Hugging Face and then TextGen, each at most  *)
(* once; the first usable result is returned at once, an unusable one  *)
(* is skipped, and the pool is used only after both were skipped.      *)
C7_FixedOrderFirstUsable ==
    /\ pc = "textgen" =>
          CallNames = << "huggingface" >> /\ ~Usable(calls[1].result)
    /\ pc = "backup" =>
          /\ CallNames = << "huggingface", "textgen" >>
          /\ ~Usable(calls[1].result)
          /\ ~Usable(calls[2].result)
    /\ Selected =>
          /\ via = "hf" =>
               /\ CallNames = << "huggingface" >>
               /\ Usable(calls[1].result)
               /\ tweet_text = calls[1].result
          /\ via = "tg" =>
               /\ CallNames = << "huggingface", "textgen" >>
               /\ ~Usable(calls[1].result)
               /\ Usable(calls[2].result)
               /\ tweet_text = calls[2].result
          /\ via = "pool" =>
               /\ CallNames = << "huggingface", "textgen" >>
               /\ ~Usable(calls[1].result)
               /\ ~Usable(calls[2].result)

(* C7 witness: Hugging Face returned a duplicate, which was skipped, *)
(* and TextGen's text was returned.                                  *)
C7_Witness ==
    /\ Selected
    /\ via = "tg"
    /\ ~calls[1].result.none
    /\ calls[1].result.text \in posted_tweets


(* C8: the selector never returns None or an empty text; with every    *)
(* backup tweet already posted the pool still gives one of the backup  *)
(* tweets, and each of them can be the one returned.                   *)
C8_NeverEmpty ==
    /\ Selected => ~tweet_text.none /\ Len(tweet_text.text) > 0
    /\ (Selected /\ via = "pool") =>
          \E i \in 1..Len(backup_tweets) : tweet_text.text = backup_tweets[i]
    /\ pc = "backup" => \E i \in 1..Len(backup_tweets) : ENABLED UseBackup(i)
    /\ (pc = "backup" /\ Unposted = {}) =>
          \A i \in 1..Len(backup_tweets) : ENABLED UseBackup(i)

(* C8 witness: both generators returned None, all 8 backup tweets were *)
(* posted already, and the pool gave one of them again.                *)
C8_Witness ==
    /\ Selected
    /\ via = "pool"
    /\ BothNone
    /\ Unposted = {}
    /\ Len(backup_tweets) = 8
    /\ tweet_text.text \in posted_tweets

(* C9 as stated: once post_tweet has returned True the message is in   *)
(* posted_tweets and has been appended to the log.                     *)
C9_AlwaysAppended ==
    (pc = "sleep" /\ success) =>
       /\ tweet_text.text \in posted_tweets
       /\ log_content = before.log \o tweet_text.text \o LineBreak

(* C9, amended: create_tweet having returned, the next step adds the   *)
(* message to posted_tweets and appends it and a line break to the log *)
(* unless that write raises, before the sleep; nothing else changes    *)
(* posted_tweets or the log, no entry is ever removed, and a selection *)
(* begins only from the top of the loop.                               *)
C9_StoreGrowsOnlyOnSuccess ==
    [][ /\ posted_tweets \subseteq posted_tweets'
        /\ (posted_tweets' # posted_tweets \/ log_content' # log_content)
              => pc = "persist"
        /\ (pc = "publish" /\ pc' # "sleep") => pc' = "persist"
        /\ pc = "persist" =>
              /\ pc' = "sleep"
              /\ success'
              /\ tweet_text' = tweet_text
              /\ posted_tweets' = posted_tweets \cup {tweet_text.text}
              /\ \/ log_content' = log_content \o tweet_text.text \o LineBreak
                 \/ log_content' = log_content
        /\ pc' = "huggingface" => pc = "top"
      ]_vars

(* C9 witness: a message that was not in posted_tweets has been posted, *)
(* added and appended, and the sleep has not begun.                     *)
C9_Witness ==
    /\ SavedToLog
    /\ tweet_text.text \in posted_tweets
    /\ tweet_text.text \notin before.posted

(* The lines of the log as it is now. *)
LogLines == FileLines(log_content)

(* C10: when the write to the log raises after create_tweet returned,   *)
(* post_tweet still returns True with the message in posted_tweets (no  *)
(* generator text that is in posted_tweets is selected), and the loop   *)
(* then takes the wait of a success; at startup, with the log           *)
(* missing or unreadable, the object is constructed and posted_tweets   *)
(* holds what was read before the failure (nothing for a missing log).  *)
C10_PersistenceFailureTolerated ==
    [][ /\ (pc = "persist" /\ log_content' = log_content) =>
              /\ pc' = "sleep"
              /\ success'
              /\ tweet_text.text \in posted_tweets'
        /\ (Selected /\ via # "pool") => tweet_text.text \notin posted_tweets
        /\ SaveFailed =>
              /\ pc' = "top"
              /\ outcome' # "failed"
              /\ slept' # << 600 >>
              /\ interval_minutes >= 0 =>
                    /\ outcome' = "posted"
                    /\ slept' = << next_interval'.val >>
                    /\ now' = now + next_interval'.val
                    /\ next_interval'.val >= interval_minutes * 48
                    /\ next_interval'.val <= interval_minutes * 72
        /\ pc = "constructed" =>
              /\ pc' = "top"
              /\ ~log_exists => posted_tweets = {}
              /\ \E k \in 0..Len(LogLines) :
                    posted_tweets = {Strip(LogLines[i], Whitespace) : i \in 1..k}
      ]_vars

(* C10 witness: the write raised, and the message is in posted_tweets *)
(* only.                                                              *)
C10_Witness ==
    /\ SaveFailed
    /\ tweet_text.text \in posted_tweets
    /\ tweet_text.text \notin before.posted
    /\ tweet_text.text \notin Reloaded

(* C11: in an iteration create_tweet is not called before the selector  *)
(* has returned; once post_tweet has gone past the call it was called   *)
(* exactly once, with the message the selector returned, whether it     *)
(* returned or raised; with no content it is not called at all.         *)
C11_CreateTweetOnce ==
    /\ pc \in {"huggingface", "textgen", "backup", "publish"} => created = << >>
    /\ pc \in {"persist", "sleep"} =>
          IF TruthyText(tweet_text)
          THEN created = << tweet_text.text >>
          ELSE created = << >>

(* create_tweet raised for a generated message and was not called again. *)
C11_Witness ==
    /\ pc = "sleep"
    /\ outcome = "failed"
    /\ via = "tg"
    /\ created = << tweet_text.text >>

(* C12: when post_tweet has returned True and the iteration is over, the *)
(* next interval has been computed; with randomize_interval it lies      *)
(* between 0.8 and 1.2 times interval_minutes (in seconds: 48 and 72     *)
(* times), and without it it is interval_minutes exactly (60 times).     *)
C12_IntervalWithinFifth ==
    (IterationDone /\ success) =>
        /\ ~next_interval.none
        /\ IF randomize_interval
           THEN /\ interval_minutes * 48 <= next_interval.val
                /\ next_interval.val <= interval_minutes * 72
           ELSE next_interval.val = interval_minutes * 60

(* A base interval of 60 minutes gave the longest interval, 72 minutes. *)
C12_Witness ==
    /\ IterationDone
    /\ success
    /\ randomize_interval
    /\ interval_minutes = 60
    /\ next_interval = SomeNumber(72 * 60)

(* The generated text drawn in advance, after strip('"\'').strip(), when *)
(* the backend does not echo the context.                                *)
CleanedDrawn ==
    CleanUp(IF drawn.resp.field = "missing" THEN << >> ELSE drawn.resp.text)

(* The results the generators returned to the selector in this call. *)
Returned == {calls[k] : k \in 1..Len(calls)}

(* C13: whatever either generator returns for a backend text that is    *)
(* not an echo, with t the cleaned text: if t has fewer than 260         *)
(* characters and no '#', the result is t, a space and one of the        *)
(* hashtags, at most 280 characters long; otherwise, if t has more than  *)
(* 280 characters, the result is its first 277 characters and "...",     *)
(* exactly 280 long; otherwise the result is t.                          *)
C13_HashtagThenTruncate ==
    \A c \in Returned :
        (~c.result.none /\ ~drawn.resp.echo) =>
            LET t == CleanedDrawn
                r == c.result.text
            IN  IF Len(t) < 260 /\ ~HasChar(t, "#")
                THEN /\ \E i \in 1..Len(hashtags) :
                            r = t \o << " " >> \o hashtags[i]
                     /\ Len(r) <= 280
                ELSE IF Len(t) > 280
                THEN /\ r = TakeFirst(t, 277) \o << ".", ".", "." >>
                     /\ Len(r) = 280
                ELSE r = t

(* TextGen returned a text of 259 characters with the longest hashtag *)
(* added to it.                                                       *)
C13_Witness ==
    /\ via = "tg"
    /\ Selected
    /\ ~drawn.resp.echo
    /\ Len(CleanedDrawn) = 259
    /\ Len(tweet_text.text) = 259 + 1 + 15

(* The answer is not a usable one for generate_tweet_with_huggingface: *)
(* an exception, a status other than 200, a body that is not a         *)
(* non-empty list, or generated_text missing or not a string.          *)
HuggingFaceMalformed(resp) ==
    \/ resp.raises
    \/ resp.status_code # 200
    \/ resp.shape # "list"
    \/ resp.field \in {"missing", "nonstring"}

(* The same for generate_tweet_with_textgen, whose body is an object. *)
TextGenMalformed(resp) ==
    \/ resp.raises
    \/ resp.status_code # 200
    \/ resp.shape # "object"
    \/ resp.field \in {"missing", "nonstring"}

(* C14: a generator whose backend raised, answered with a status other *)
(* than 200 or with a body of the wrong shape (generated_text missing  *)
(* or not a string included) returns None, and when both did the       *)
(* selector returns an entry of the pool.                              *)
C14_MalformedGivesNone ==
    /\ \A c \in Returned :
          \/ c.name = "huggingface" /\ HuggingFaceMalformed(drawn.resp)
          \/ c.name = "textgen" /\ TextGenMalformed(drawn.resp)
          => c.result.none
    /\ (Selected /\ HuggingFaceMalformed(drawn.resp)
                 /\ TextGenMalformed(drawn.resp)) => via = "pool"

(* C15: with a runtime limit, and every call returning and every sleep  *)
(* ending, run eventually stops; it stops only by the test at the top   *)
(* of the loop, made when the limit has passed, so an iteration that    *)
(* has begun is completed, sleep included; and once the test finds the  *)
(* limit passed nothing but the stop follows: no iteration begins.      *)
C15_StopsAtFirstCheckAfterDeadline ==
    /\ <>(pc = "stopped")
    /\ [][(pc' = "stopped") =>
             /\ pc = "top"
             /\ ~end_time.none
             /\ now > end_time.val]_vars
    /\ [][(pc = "top" /\ ~end_time.none /\ now > end_time.val) =>
             pc' = "stopped"]_vars

(* run has stopped after three iterations or more, and the limit passed *)
(* while the last of them slept.                                        *)
C15_Witness ==
    /\ pc = "stopped"
    /\ cycles >= 3
    /\ Len(slept) = 1
    /\ now - slept[1] <= end_time.val
    /\ now > end_time.val

(* C16: the messages earlier processes published and wrote to the log  *)
(* are in posted_tweets of the process started on that log, and a      *)
(* message a generator returned that goes to create_tweet is none of   *)
(* them.                                                               *)
C16_KnownAfterRestart ==
    /\ history.earlier \subseteq posted_tweets
    /\ (pc \in {"publish", "persist", "sleep"} /\ via \in {"hf", "tg"}) =>
          tweet_text.text \notin history.earlier

(* The message made of the text that follows the echoed context. *)
AfterContext ==
    Truncate(AddHashtag(CleanUp(Strip(drawn.resp.text, Whitespace)), drawn.h))

(* C17: when the backend's generated text begins with the context that *)
(* was sent, what either generator returns is the message made of the  *)
(* text after the context.                                             *)
C17_EchoRemovedAlike ==
    \A c \in Returned :
        (drawn.resp.echo /\ ~c.result.none) => c.result.text = AfterContext

(* create_tweet has just returned for a message it had already accepted *)
(* in this run.                                                         *)
PublishedAgain == pc = "persist" /\ tweet_text.text \in history.published

(* C18: in a run, when create_tweet accepts a message it has accepted   *)
(* before, the message is a backup tweet that came from the pool while  *)
(* every backup tweet was in posted_tweets; a message that came from a  *)
(* generator is accepted by create_tweet for the first time.            *)
C18_SecondTimeOnlyFromFullPool ==
    PublishedAgain =>
        /\ via = "pool"
        /\ \E i \in 1..Len(backup_tweets) : tweet_text.text = backup_tweets[i]
        /\ Unposted = {}

(* A backup tweet is published for the second time in a run. *)
C18_Witness ==
    /\ PublishedAgain
    /\ via = "pool"
    /\ cycles = 2

(* The backend answered 200 with a body of the shape the named generator *)
(* reads and an empty generated text.                                    *)
EmptyAnswerFor(name) ==
    /\ ~drawn.resp.raises
    /\ drawn.resp.status_code = 200
    /\ drawn.resp.shape = (IF name = "huggingface" THEN "list" ELSE "object")
    /\ drawn.resp.field = "text"
    /\ drawn.resp.text = << >>
    /\ ~drawn.resp.echo

(* A space and the hashtag drawn. *)
HashtagAlone == << " " >> \o hashtags[drawn.h]

(* C19: for an answer of 200 with an empty generated text a generator   *)
(* returns neither None nor an empty text but a space and one hashtag;  *)
(* unless that is in posted_tweets the selector returns it, without     *)
(* calling the next generator or the pool, and it is what create_tweet  *)
(* is given.                                                            *)
C19_EmptyTextBecomesHashtag ==
    /\ \A c \in Returned :
          EmptyAnswerFor(c.name) =>
              /\ c.result = SomeText(HashtagAlone)
              /\ HashtagAlone \notin posted_tweets =>
                    /\ Selected
                    /\ tweet_text = c.result
                    /\ via = (IF c.name = "huggingface" THEN "hf" ELSE "tg")
                    /\ c = calls[Len(calls)]
    /\ \A name \in {"huggingface", "textgen"} :
          (EmptyAnswerFor(name) /\ HashtagAlone \notin posted_tweets
             /\ pc \in {"persist", "sleep"}) => created = << HashtagAlone >>

(* TextGen answered with an empty text and create_tweet was given a *)
(* space and "#Crypto".                                             *)
C19_Witness ==
    /\ EmptyAnswerFor("textgen")
    /\ pc = "persist"
    /\ via = "tg"
    /\ created = << << " " >> \o hashtags[3] >>

(* C20: once run has been called, with max_runtime_hours of 0 or None  *)
(* end_time is None, the test at the top of the loop does not fire and *)
(* run has not stopped; with a positive max_runtime_hours end_time is  *)
(* that many hours after the call.                                     *)
C20_ZeroHoursIsNoLimit ==
    pc # "constructed" =>
        IF max_runtime_hours.none \/ max_runtime_hours.val = 0
        THEN /\ end_time = NoNumber
             /\ ~ENABLED Stop
             /\ pc # "stopped"
        ELSE /\ max_runtime_hours.val > 0
             /\ end_time = SomeNumber(max_runtime_hours.val * 3600)

(* With max_runtime_hours = 0 two iterations have published and the *)
(* loop is at its top again, an hour after the second.              *)
C20_Witness ==
    /\ max_runtime_hours = SomeNumber(0)
    /\ pc = "top"
    /\ cycles = 2
    /\ outcome = "posted"
    /\ now = 7200

=============================================================================
